---------------------------- MODULE Spec2Model ----------------------------
(***************************************************************************)
(* Line of Credit approval front end: the Yup validation schema and the    *)
(* Formik form of ApplicationForm.tsx, the submission handler and the      *)
(* reset handler of App.tsx, the rendering of ResultDisplay.tsx, and the   *)
(* three-model decision pipeline behind POST /api/predict/.                *)
(*                                                                         *)
(* Numbers.  A form number is written Num(i, k): i is its floor and k      *)
(* tells whether it has a fractional part (k = 0: the whole number i,      *)
(* k = 1: a number strictly between i and i + 1, such as i + 0.5).  The    *)
(* empty input '' (what Formik stores when parseFloat gives NaN) is Blank. *)
(* Nullable state (result, error, the request and response in flight) is   *)
(* a sequence of length 0 (null) or 1.                                     *)
(***************************************************************************)
EXTENDS Integers, Sequences, FiniteSets, TLC

VARIABLES
    values,     \* formik.values: the raw record held by the form
    errors,     \* formik.errors: field name -> message, failing fields only
    validated,  \* errors is the outcome of validating the current values
    result,     \* App state: LOCDecisionResult | null
    loading,    \* App state
    error,      \* App state: string | null
    pending,    \* calls of App.handleSubmit that have not returned yet
    posts,      \* fetch calls made by the latest call of App.handleSubmit
    pc,         \* position of the submission: idle, received, validating,
                \* awaitFetch, awaitJson
    phase,      \* request lifecycle state of the current / latest submission
    request,    \* body of the POST on its way to the server, or null
    srv,        \* position of the decision pipeline
    calls,      \* model invocations made for the request being scored
    outputs,    \* what each model returned for that request, or null
    response,   \* what the fetch promise is about to settle with: the
                \* response on its way to the client, a rejection, or null
    view        \* what the last render put on the screen

vars == <<values, errors, validated, result, loading, error, pending, posts,
          pc, phase, request, srv, calls, outputs, response, view>>

Null == <<>>
Some(x) == <<x>>

----------------------------------------------------------------------------
(* Bounds of the model. *)

\* Raw records handed to the validator differ from a valid base record in
\* at most this many fields.
MaxDeviations == 2
\* The form's values differ from initialValues in at most this many fields.
MaxDirty == 1

----------------------------------------------------------------------------
(* Numbers *)

Num(i, k) == [blank |-> FALSE, int |-> i, frac |-> k]
Blank == [blank |-> TRUE, int |-> 0, frac |-> 0]

\* value >= n, value <= n and Number.isInteger(value), for a whole n
AtLeast(v, n) == v.int >= n
AtMost(v, n) == v.int < n \/ (v.int = n /\ v.frac = 0)
IsInteger(v) == v.frac = 0

----------------------------------------------------------------------------
(* ApplicationSchema *)

FieldOrder ==
    << "applicant_id", "annual_income", "self_reported_debt",
       "self_reported_expenses", "requested_amount", "age", "province",
       "employment_status", "months_employed", "credit_score",
       "total_credit_limit", "credit_utilization", "num_open_accounts",
       "num_credit_inquiries", "payment_history", "monthly_expenses" >>

Fields == {FieldOrder[i] : i \in DOMAIN FieldOrder}

\* Fields declared with Yup.number()
NumberFields ==
    { "annual_income", "self_reported_debt", "self_reported_expenses",
      "requested_amount", "age", "months_employed", "credit_score",
      "total_credit_limit", "credit_utilization", "num_open_accounts",
      "num_credit_inquiries", "monthly_expenses" }

\* Fields whose schema has .integer('Must be a whole number')
IntegerFields ==
    { "age", "months_employed", "credit_score", "num_open_accounts",
      "num_credit_inquiries" }

\* Fields whose schema has .oneOf([...])
EnumFields == { "province", "employment_status", "payment_history" }

MaxLength == [applicant_id |-> 50]

Min ==
    [ annual_income |-> 20000, self_reported_debt |-> 0,
      self_reported_expenses |-> 0, requested_amount |-> 1000, age |-> 19,
      months_employed |-> 0, credit_score |-> 300, total_credit_limit |-> 0,
      credit_utilization |-> 0, num_open_accounts |-> 0,
      num_credit_inquiries |-> 0, monthly_expenses |-> 0 ]

Max ==
    [ annual_income |-> 200000, self_reported_debt |-> 10000,
      self_reported_expenses |-> 10000, requested_amount |-> 50000,
      age |-> 100, months_employed |-> 600, credit_score |-> 900,
      total_credit_limit |-> 50000, credit_utilization |-> 100,
      num_open_accounts |-> 20, num_credit_inquiries |-> 10,
      monthly_expenses |-> 10000 ]

\* Variant: a whitelist that misses the last territory.
OneOfWithoutNunavut ==
    [ province |-> { "ON", "BC", "AB", "QC", "MB", "SK", "NS", "NB", "NL",
                     "PE", "YT", "NT" },
      employment_status |-> { "Full-time", "Part-time", "Unemployed" },
      payment_history |-> { "On Time", "Late <30", "Late 30-60", "Late >60" } ]

OneOf ==
    [ province |-> { "ON", "BC", "AB", "QC", "MB", "SK", "NS", "NB", "NL",
                     "PE", "YT", "NT", "NU" },
      employment_status |-> { "Full-time", "Part-time", "Unemployed" },
      payment_history |-> { "On Time", "Late <30", "Late 30-60", "Late >60" } ]

RequiredMessage == "Required"
IntegerMessage == "Must be a whole number"
MaxLengthMessage == [applicant_id |-> "Must be 50 characters or less"]

MinMessage ==
    [ annual_income |-> "Must be at least $20,000",
      self_reported_debt |-> "Must be at least $0",
      self_reported_expenses |-> "Must be at least $0",
      requested_amount |-> "Must be at least $1,000",
      age |-> "Must be at least 19 years old",
      months_employed |-> "Must be at least 0",
      credit_score |-> "Must be at least 300",
      total_credit_limit |-> "Must be at least $0",
      credit_utilization |-> "Must be at least 0%",
      num_open_accounts |-> "Must be at least 0",
      num_credit_inquiries |-> "Must be at least 0",
      monthly_expenses |-> "Must be at least $0" ]

MaxMessage ==
    [ annual_income |-> "Must be at most $200,000",
      self_reported_debt |-> "Must be at most $10,000",
      self_reported_expenses |-> "Must be at most $10,000",
      requested_amount |-> "Must be at most $50,000",
      age |-> "Must be at most 100 years old",
      months_employed |-> "Must be at most 600",
      credit_score |-> "Must be at most 900",
      total_credit_limit |-> "Must be at most $50,000",
      credit_utilization |-> "Must be at most 100%",
      num_open_accounts |-> "Must be at most 20",
      num_credit_inquiries |-> "Must be at most 10",
      monthly_expenses |-> "Must be at most $10,000" ]

OneOfMessage ==
    [ province |-> "Invalid province",
      employment_status |-> "Invalid employment status",
      payment_history |-> "Invalid payment history" ]

\* The tests chained on a field's schema, in the order they are chained.
Tests(f) ==
    IF f \in IntegerFields THEN << "required", "integer", "min", "max" >>
    ELSE IF f \in NumberFields THEN << "required", "min", "max" >>
    ELSE IF f \in EnumFields THEN << "required", "oneOf" >>
    ELSE << "required", "max" >>

\* Formik hands '' to Yup as undefined (prepareDataForValidation), and
\* .required() fails on undefined, and for a string on '' as well.
IsAbsent(f, v) == IF f \in NumberFields THEN v.blank ELSE v = ""

\* Variants: required that lets an empty string through, integer left
\* out, min as a strict comparison.
TestRequiredDefinedOnly(f, v) == f \in NumberFields => ~v.blank
TestIntegerOmitted(f, v) == TRUE
TestMinStrict(f, v) == v.int > Min[f] \/ (v.int = Min[f] /\ v.frac # 0)

TestRequired(f, v) == ~IsAbsent(f, v)
TestInteger(f, v) == IsInteger(v)
TestMin(f, v) == AtLeast(v, Min[f])
TestMax(f, v) ==
    IF f \in NumberFields THEN AtMost(v, Max[f]) ELSE Len(v) <= MaxLength[f]
TestOneOf(f, v) == v \in OneOf[f]

\* Whether value v of field f passes test t.  Every test but required
\* passes on an absent value.
Passes(t, f, v) ==
    CASE t = "required" -> TestRequired(f, v)
      [] t = "integer" -> IsAbsent(f, v) \/ TestInteger(f, v)
      [] t = "min" -> IsAbsent(f, v) \/ TestMin(f, v)
      [] t = "max" -> IsAbsent(f, v) \/ TestMax(f, v)
      [] t = "oneOf" -> IsAbsent(f, v) \/ TestOneOf(f, v)

Message(t, f) ==
    CASE t = "required" -> RequiredMessage
      [] t = "integer" -> IntegerMessage
      [] t = "min" -> MinMessage[f]
      [] t = "max" ->
            IF f \in NumberFields THEN MaxMessage[f] ELSE MaxLengthMessage[f]
      [] t = "oneOf" -> OneOfMessage[f]

\* The messages of the tests value v fails, in test order: what Yup
\* collects for one field under abortEarly: false.
FieldErrors(f, v) ==
    LET ts == Tests(f)
        failing == SelectSeq(ts, LAMBDA t : ~Passes(t, f, v))
    IN  [i \in DOMAIN failing |-> Message(failing[i], f)]

\* The fields of a record that fail validation.
Failing(rec) == {f \in Fields : FieldErrors(f, rec[f]) # << >>}

\* Variant: validation that stops at the first failing field (abortEarly).
ValidateYupSchemaAbortEarly(rec) ==
    LET failing == SelectSeq(FieldOrder, LAMBDA f : f \in Failing(rec))
        first == IF failing = << >> THEN {} ELSE {Head(failing)}
    IN  [f \in first |-> Head(FieldErrors(f, rec[f]))]

\* validateYupSchema + yupToFormErrors: every field is validated, and the
\* error map keeps the first message of each failing field.
ValidateYupSchema(rec) ==
    [f \in Failing(rec) |-> Head(FieldErrors(f, rec[f]))]

NoErrors == [f \in {} |-> ""]

----------------------------------------------------------------------------
(* initialValues and the option lists of the select elements *)

initialValues ==
    [ applicant_id |-> "",
      annual_income |-> Num(60000, 0),
      self_reported_debt |-> Num(1000, 0),
      self_reported_expenses |-> Num(2000, 0),
      requested_amount |-> Num(10000, 0),
      age |-> Num(35, 0),
      province |-> "ON",
      employment_status |-> "Full-time",
      months_employed |-> Num(24, 0),
      credit_score |-> Num(700, 0),
      total_credit_limit |-> Num(15000, 0),
      credit_utilization |-> Num(30, 0),
      num_open_accounts |-> Num(3, 0),
      num_credit_inquiries |-> Num(1, 0),
      payment_history |-> "On Time",
      monthly_expenses |-> Num(2500, 0) ]

provinces ==
    << [value |-> "ON", label |-> "Ontario"],
       [value |-> "BC", label |-> "British Columbia"],
       [value |-> "AB", label |-> "Alberta"],
       [value |-> "QC", label |-> "Quebec"],
       [value |-> "MB", label |-> "Manitoba"],
       [value |-> "SK", label |-> "Saskatchewan"],
       [value |-> "NS", label |-> "Nova Scotia"],
       [value |-> "NB", label |-> "New Brunswick"],
       [value |-> "NL", label |-> "Newfoundland and Labrador"],
       [value |-> "PE", label |-> "Prince Edward Island"],
       [value |-> "YT", label |-> "Yukon"],
       [value |-> "NT", label |-> "Northwest Territories"],
       [value |-> "NU", label |-> "Nunavut"] >>

employmentStatuses ==
    << [value |-> "Full-time", label |-> "Full-time"],
       [value |-> "Part-time", label |-> "Part-time"],
       [value |-> "Unemployed", label |-> "Unemployed"] >>

paymentHistories ==
    << [value |-> "On Time", label |-> "On Time"],
       [value |-> "Late <30", label |-> "Late <30 days"],
       [value |-> "Late 30-60", label |-> "Late 30-60 days"],
       [value |-> "Late >60", label |-> "Late >60 days"] >>

\* The option list of a select element of the form.
OptionList(f) ==
    CASE f = "province" -> provinces
      [] f = "employment_status" -> employmentStatuses
      [] f = "payment_history" -> paymentHistories

\* The values a select element of the form can produce.
Options(f) == {OptionList(f)[i].value : i \in DOMAIN OptionList(f)}

LastOption(f) == {OptionList(f)[Len(OptionList(f))].value}


----------------------------------------------------------------------------
(* Inputs *)

Id50 == "A123456789B123456789C123456789D123456789E123456789"
Id51 == "A123456789B123456789C123456789D123456789E123456789F"

\* Values tried for a field of a raw record: for a number the empty
\* input, both bounds, one unit outside each bound, and non-whole values
\* below, inside and above the range.
RawCandidates(f) ==
    IF f \in NumberFields
    THEN { Blank, Num(Min[f] - 1, 0), Num(Min[f] - 1, 1), Num(Min[f], 0),
           Num(Min[f], 1), Num(Max[f], 0), Num(Max[f], 1),
           Num(Max[f] + 1, 0) }
    ELSE IF f \in EnumFields THEN Options(f) \cup {"", "XX"}
    ELSE {"", "A-1001", Id50, Id51}

\* Values entered in the form: a number input gives a number or '' (here
\* the largest valid number, '', or the initial number again), a text
\* input any string, a select element one of its options (here the
\* initial one or the last of the list).
FormCandidates(f) ==
    IF f \in NumberFields THEN {Blank, Num(Max[f], 0), initialValues[f]}
    ELSE IF f \in EnumFields
    THEN {initialValues[f]} \cup LastOption(f)
    ELSE {"", "A-1001", Id51}

\* How many fields of a record differ from those of a base record.
Dirty(rec, base) == Cardinality({f \in Fields : rec[f] # base[f]})

----------------------------------------------------------------------------
(* ResultDisplay and the render of App *)

DecisionResult(approved, creditLimit, interestRate, reason) ==
    [ approval_status |-> approved, credit_limit |-> creditLimit,
      interest_rate |-> interestRate, reason |-> reason ]

\* reason && ...: an optional string is truthy when present and non-empty
Truthy(opt) == opt # Null /\ opt[1] # ""

\* result.approval_status and result.reason: a key the object lacks reads
\* as undefined, which is falsy.
Approved(r) == IF "approval_status" \in DOMAIN r THEN r.approval_status ELSE FALSE
ReasonOf(r) == IF "reason" \in DOMAIN r THEN r.reason ELSE Null

\* Variant: the credit limit and the interest rate shown in both branches.
ResultDisplayUngated(r) ==
    {IF Approved(r) THEN "APPROVED" ELSE "DENIED"}
        \cup {"credit_limit", "interest_rate"}
        \cup (IF Truthy(ReasonOf(r)) THEN {"reason"} ELSE {})

\* The result-dependent parts ResultDisplay puts on the screen.
ResultDisplay(r) ==
    {IF Approved(r) THEN "APPROVED" ELSE "DENIED"}
        \cup (IF Approved(r)
              THEN {"credit_limit", "interest_rate"}
              ELSE IF Truthy(ReasonOf(r)) THEN {"reason"} ELSE {})

\* formik.isValid
IsValid(errs) == Cardinality(DOMAIN errs) = 0

\* The render of App: the form while result is null, else the result.
\* Variant: the submit button is disabled by an invalid form only.
RenderSubmitEnabledWhileLoading(res, ld, err, errs) ==
    IF res = Null
    THEN [ screen |-> "form", shown |-> {},
           banner |-> IF Truthy(err) THEN err ELSE Null,
           submitDisabled |-> ~IsValid(errs) ]
    ELSE [ screen |-> "result", shown |-> ResultDisplay(res[1]),
           banner |-> Null, submitDisabled |-> TRUE ]

\* Variant: ResultDisplay replaces the form for an approved result only.
RenderResultOnlyWhenApproved(res, ld, err, errs) ==
    IF res = Null \/ ~Approved(res[1])
    THEN [ screen |-> "form", shown |-> {},
           banner |-> IF Truthy(err) THEN err ELSE Null,
           submitDisabled |-> ld \/ ~IsValid(errs) ]
    ELSE [ screen |-> "result", shown |-> ResultDisplay(res[1]),
           banner |-> Null, submitDisabled |-> TRUE ]

Render(res, ld, err, errs) ==
    IF res = Null
    THEN [ screen |-> "form", shown |-> {},
           banner |-> IF Truthy(err) THEN err ELSE Null,
           submitDisabled |-> ld \/ ~IsValid(errs) ]
    ELSE [ screen |-> "result", shown |-> ResultDisplay(res[1]),
           banner |-> Null, submitDisabled |-> TRUE ]


----------------------------------------------------------------------------
(* The state after App and ApplicationForm have mounted *)

NoCalls == [classifier |-> 0, limit |-> 0, rate |-> 0]
NoOutputs == [classifier |-> Null, limit |-> Null, rate |-> Null]

\* Everything but the values and the result: nothing validated, nothing
\* loading, no error, no request under way.
Quiet ==
    /\ errors = NoErrors
    /\ validated = FALSE
    /\ loading = FALSE
    /\ error = Null
    /\ pending = 0
    /\ posts = 0
    /\ pc = "idle"
    /\ request = Null
    /\ srv = "idle"
    /\ calls = NoCalls
    /\ outputs = NoOutputs
    /\ response = Null
    /\ view = Render(Null, FALSE, Null, NoErrors)

Init ==
    /\ values = initialValues
    /\ result = Null
    /\ phase = "Idle"
    /\ Quiet

formVars == <<values, errors, validated>>
appVars == <<result, loading, error, pending, posts>>
serverVars == <<srv, calls, outputs>>

\* Every state update ends in a render of App.
Rerender == view' = Render(result', loading', error', errors')

----------------------------------------------------------------------------
(* ApplicationForm: Formik *)

\* While a submit event is being handled (its validation settles in
\* microtasks) no other user event is dispatched.
Dispatching == pc \in {"received", "validating"}

\* formik.handleChange on an input or select, followed by the validation
\* it triggers (validateOnChange).
HandleChange(f, v) ==
    /\ view.screen = "form"
    /\ ~Dispatching
    /\ v # values[f]
    /\ Dirty([values EXCEPT ![f] = v], initialValues) <= MaxDirty
    /\ values' = [values EXCEPT ![f] = v]
    /\ errors' = ValidateYupSchema(values')
    /\ validated' = TRUE
    /\ UNCHANGED <<appVars, pc, phase, request, serverVars, response>>
    /\ Rerender

\* The form's submit event: a click on the submit button, which is
\* disabled while loading or while the form is invalid.
FormikHandleSubmit ==
    /\ view.screen = "form"
    /\ ~view.submitDisabled
    /\ ~Dispatching
    /\ pc' = "received"
    /\ phase' = "Received"
    /\ UNCHANGED <<formVars, appVars, request, serverVars, response, view>>

\* submitForm: the submit attempt starts the validation of all values.
SubmitForm ==
    /\ pc = "received"
    /\ pc' = "validating"
    /\ phase' = "Validating"
    /\ UNCHANGED <<formVars, appVars, request, serverVars, response, view>>

----------------------------------------------------------------------------
(* App.handleSubmit and App.handleReset *)

GenericErrorMessage == "An error occurred while processing your application"
UnknownErrorMessage == "An unknown error occurred"

\* What the browser throws: a TypeError when fetch fails, a SyntaxError
\* when the body is not JSON.
FetchFailure == [isError |-> TRUE, message |-> "Failed to fetch"]
JsonFailure == [isError |-> TRUE, message |-> "Unexpected token < in JSON"]

\* A fetch that has been wrapped or replaced may reject with a value that
\* is no instance of Error, such as a plain object with a message.
PlainRejection == [isError |-> FALSE, message |-> "Service unavailable"]
Thrown == {FetchFailure, PlainRejection}

\* The fetch promise is about to reject with err.
Rejection(err) == [thrown |-> err]
IsRejection(r) == "thrown" \in DOMAIN r

\* A response has arrived for the pending fetch.
Arrived == IF response = Null THEN FALSE ELSE ~IsRejection(response[1])

\* Variant: setError(null) left out.
HandleSubmitStartKeepsError(formData) ==
    /\ loading' = TRUE
    /\ pending' = pending + 1
    /\ posts' = 1
    /\ request' = Some(formData)
    /\ pc' = "awaitFetch"
    /\ phase' = "Scoring"
    /\ UNCHANGED <<result, error>>

\* handleSubmit up to its first await: the state updates and the POST.
HandleSubmitStart(formData) ==
    /\ loading' = TRUE
    /\ error' = Null
    /\ pending' = pending + 1
    /\ posts' = 1
    /\ request' = Some(formData)
    /\ pc' = "awaitFetch"
    /\ phase' = "Scoring"
    /\ UNCHANGED result

\* data.error of a parsed body: undefined when the body has no such key
ErrorOf(data) == IF "error" \in DOMAIN data THEN data.error ELSE Null

\* Variant: data.error ?? '...', which keeps an empty string.
ResponseErrorNullish(data) ==
    [ isError |-> TRUE,
      message |-> IF ErrorOf(data) # Null THEN ErrorOf(data)[1]
                  ELSE GenericErrorMessage ]

\* new Error(data.error || '...')
ResponseError(data) ==
    [ isError |-> TRUE,
      message |-> IF Truthy(ErrorOf(data)) THEN ErrorOf(data)[1]
                  ELSE GenericErrorMessage ]

\* Variant: setLoading(false) at the end of the try block, not in finally.
HandleSubmitCatchKeepsLoading(err) ==
    /\ error' = Some(IF err.isError THEN err.message ELSE UnknownErrorMessage)
    /\ pending' = pending - 1
    /\ pc' = "idle"
    /\ phase' = "RespondedError"
    /\ UNCHANGED <<result, loading, posts>>

\* catch (err) { setError(...) } finally { setLoading(false) }
HandleSubmitCatch(err) ==
    /\ error' = Some(IF err.isError THEN err.message ELSE UnknownErrorMessage)
    /\ loading' = FALSE
    /\ pending' = pending - 1
    /\ pc' = "idle"
    /\ phase' = "RespondedError"
    /\ UNCHANGED <<result, posts>>

\* setResult(data) and then finally { setLoading(false) }
HandleSubmitSuccess(data) ==
    /\ result' = Some(data)
    /\ loading' = FALSE
    /\ pending' = pending - 1
    /\ pc' = "idle"
    /\ phase' = "RespondedDecision"
    /\ UNCHANGED <<error, posts>>

\* Variant: onSubmit called whatever the validation found.
SubmitSettlesUnchecked ==
    /\ pc = "validating"
    /\ errors' = ValidateYupSchema(values)
    /\ validated' = TRUE
    /\ HandleSubmitStart(values)
    /\ UNCHANGED <<values, serverVars, response>>
    /\ Rerender

\* The validation started by submitForm settles: onSubmit, that is
\* App.handleSubmit, is called with the values if no field failed.
SubmitSettles ==
    /\ pc = "validating"
    /\ errors' = ValidateYupSchema(values)
    /\ validated' = TRUE
    /\ IF IsValid(errors')
       THEN HandleSubmitStart(values)
       ELSE /\ pc' = "idle"
            /\ phase' = "Rejected"
            /\ UNCHANGED <<appVars, request>>
    /\ UNCHANGED <<values, serverVars, response>>
    /\ Rerender

\* The request or its response is lost: the fetch promise is about to
\* reject, and what the server does for the request no longer matters.
NetworkFails(err) ==
    /\ pc = "awaitFetch"
    /\ IF response = Null THEN TRUE ELSE ~IsRejection(response[1])
    /\ request' = Null
    /\ response' = Some(Rejection(err))
    /\ srv' = "idle"
    /\ UNCHANGED <<formVars, appVars, pc, phase, calls, outputs, view>>

\* Variant: a failed fetch is tried again, up to three times.
FetchRejectsRetrying ==
    /\ pc = "awaitFetch"
    /\ response # Null
    /\ IsRejection(response[1])
    /\ IF posts < 3
       THEN /\ posts' = posts + 1
            /\ request' = Some(values)
            /\ UNCHANGED <<result, loading, error, pending, pc, phase>>
       ELSE /\ HandleSubmitCatch(response[1].thrown)
            /\ UNCHANGED request
    /\ response' = Null
    /\ UNCHANGED <<formVars, serverVars>>
    /\ Rerender

\* await fetch(...) throws.
FetchRejects ==
    /\ pc = "awaitFetch"
    /\ response # Null
    /\ IsRejection(response[1])
    /\ HandleSubmitCatch(response[1].thrown)
    /\ response' = Null
    /\ UNCHANGED <<formVars, request, serverVars>>
    /\ Rerender

\* await fetch(...) returns the response.
FetchResolves ==
    /\ pc = "awaitFetch"
    /\ Arrived
    /\ pc' = "awaitJson"
    /\ UNCHANGED <<formVars, appVars, phase, request, serverVars, response,
                   view>>

\* Variant: the response status is not looked at.
JsonSettlesIgnoringStatus ==
    /\ pc = "awaitJson"
    /\ LET res == response[1]
       IN  IF ~res.parsable THEN HandleSubmitCatch(JsonFailure)
           ELSE HandleSubmitSuccess(res.data)
    /\ response' = Null
    /\ UNCHANGED <<formVars, request, serverVars>>
    /\ Rerender

\* Variant: setResult(data) before the response status is looked at.
JsonSettlesResultFirst ==
    /\ pc = "awaitJson"
    /\ LET res == response[1]
       IN  IF ~res.parsable THEN HandleSubmitCatch(JsonFailure)
           ELSE IF ~res.ok
           THEN /\ result' = Some(res.data)
                /\ error' = Some(ResponseError(res.data).message)
                /\ loading' = FALSE
                /\ pending' = pending - 1
                /\ pc' = "idle"
                /\ phase' = "RespondedError"
                /\ UNCHANGED posts
           ELSE HandleSubmitSuccess(res.data)
    /\ response' = Null
    /\ UNCHANGED <<formVars, request, serverVars>>
    /\ Rerender

\* await response.json() settles, and handleSubmit runs to its end.
JsonSettles ==
    /\ pc = "awaitJson"
    /\ LET res == response[1]
       IN  IF ~res.parsable THEN HandleSubmitCatch(JsonFailure)
           ELSE IF ~res.ok THEN HandleSubmitCatch(ResponseError(res.data))
           ELSE HandleSubmitSuccess(res.data)
    /\ response' = Null
    /\ UNCHANGED <<formVars, request, serverVars>>
    /\ Rerender

\* Variant: the form is hidden while a result is shown, not unmounted.
HandleResetKeepsValues ==
    /\ view.screen = "result"
    /\ ~Dispatching
    /\ result' = Null
    /\ error' = Null
    /\ UNCHANGED <<formVars, loading, pending, posts, pc, phase, request,
                   serverVars, response>>
    /\ Rerender

\* handleReset, from the button of ResultDisplay; the form mounts again.
HandleReset ==
    /\ view.screen = "result"
    /\ ~Dispatching
    /\ result' = Null
    /\ error' = Null
    /\ values' = initialValues
    /\ errors' = NoErrors
    /\ validated' = FALSE
    /\ UNCHANGED <<loading, pending, posts, pc, phase, request, serverVars,
                   response>>
    /\ Rerender

----------------------------------------------------------------------------
(* POST /api/predict/: the decision pipeline *)

ServerErrorMessage == "Internal server error"
DenialReasons == {"Credit score too low", "Application denied"}
Limits == {12345}
Rates == {8}

\* A model invocation returns one of the values of S or fails (Null).
Outcomes(S) == {Null} \cup {Some(x) : x \in S}

JsonResponse(ok, data) == [ok |-> ok, parsable |-> TRUE, data |-> data]
ServingError == JsonResponse(FALSE, [error |-> Some(ServerErrorMessage)])

\* The request reaches the request handler, which starts the pipeline.
Receive ==
    /\ request # Null
    /\ srv = "idle"
    /\ request' = Null
    /\ srv' = "classify"
    /\ calls' = NoCalls
    /\ outputs' = NoOutputs
    /\ UNCHANGED <<formVars, appVars, pc, phase, response, view>>

\* Bodies of a 4xx response: field names mapped to error strings, or a
\* single summary under the key error, which may be empty.
ClientErrorBodies ==
    { [applicant_id |-> "Applicant ID already exists"], [error |-> Some("")] }

\* The request handler finds the body invalid and answers with a 4xx; no
\* model is invoked for the request.
RejectRequest(body) ==
    /\ request # Null
    /\ srv = "idle"
    /\ request' = Null
    /\ calls' = NoCalls
    /\ outputs' = NoOutputs
    /\ response' = Some(JsonResponse(FALSE, body))
    /\ UNCHANGED <<formVars, appVars, pc, phase, srv, view>>

\* A model invocation failed: the pipeline signals a ServingError.
SignalServingError ==
    /\ srv' = "idle"
    /\ response' = Some(ServingError)

\* Variant: the regressors are run whatever the classifier answered.
AfterClassifyUngated(approved, reason) ==
    srv' = "limit" /\ UNCHANGED response

\* What the pipeline does once the classifier has answered.
AfterClassify(approved, reason) ==
    IF approved
    THEN srv' = "limit" /\ UNCHANGED response
    ELSE /\ srv' = "idle"
         /\ response' =
                Some(JsonResponse(TRUE, DecisionResult(FALSE, 0, 0, Some(reason))))

\* The approval classifier is invoked; it answers (with a reason for a
\* denial) or fails.  A failed invocation has outcome Null.
Classify(outcome, reason) ==
    /\ srv = "classify"
    /\ calls' = [calls EXCEPT !.classifier = @ + 1]
    /\ outputs' = [outputs EXCEPT !.classifier = outcome]
    /\ IF outcome = Null THEN SignalServingError
       ELSE AfterClassify(outcome[1], reason)
    /\ UNCHANGED <<formVars, appVars, pc, phase, request, view>>

\* The credit limit regressor is invoked.
PredictLimit(outcome) ==
    /\ srv = "limit"
    /\ calls' = [calls EXCEPT !.limit = @ + 1]
    /\ outputs' = [outputs EXCEPT !.limit = outcome]
    /\ IF outcome = Null THEN SignalServingError
       ELSE srv' = "rate" /\ UNCHANGED response
    /\ UNCHANGED <<formVars, appVars, pc, phase, request, view>>

\* The interest rate regressor is invoked, and the result is assembled.
PredictRate(outcome) ==
    /\ srv = "rate"
    /\ calls' = [calls EXCEPT !.rate = @ + 1]
    /\ outputs' = [outputs EXCEPT !.rate = outcome]
    /\ IF outcome = Null THEN SignalServingError
       ELSE /\ srv' = "idle"
            /\ response' =
                 Some(JsonResponse(TRUE,
                      DecisionResult(TRUE, outputs.limit[1], outcome[1], Null)))
    /\ UNCHANGED <<formVars, appVars, pc, phase, request, view>>

\* Something between the client and the pipeline answers instead, with a
\* body that is not JSON (a proxy's error page, a fallback HTML page).
GatewayResponds(ok) ==
    /\ request # Null
    /\ request' = Null
    /\ response' = Some([ok |-> ok, parsable |-> FALSE, data |-> Null])
    /\ UNCHANGED <<formVars, appVars, pc, phase, serverVars, view>>

----------------------------------------------------------------------------
Next ==
    \/ \E f \in Fields : \E v \in FormCandidates(f) : HandleChange(f, v)
    \/ FormikHandleSubmit
    \/ SubmitForm
    \/ SubmitSettles
    \/ Receive
    \/ \E body \in ClientErrorBodies : RejectRequest(body)
    \/ \E o \in Outcomes(BOOLEAN) : \E r \in DenialReasons : Classify(o, r)
    \/ \E o \in Outcomes(Limits) : PredictLimit(o)
    \/ \E o \in Outcomes(Rates) : PredictRate(o)
    \/ \E ok \in BOOLEAN : GatewayResponds(ok)
    \/ \E err \in Thrown : NetworkFails(err)
    \/ FetchRejects
    \/ FetchResolves
    \/ JsonSettles
    \/ HandleReset

Spec == Init /\ [][Next]_vars


----------------------------------------------------------------------------
(* The validator alone, on raw records *)

\* A record every field of which is valid: the initial values with an
\* applicant id filled in.
ValidRecord == [initialValues EXCEPT !.applicant_id = "A-1001"]

\* A field of the raw record is given another value before validation.
SetRaw ==
    /\ ~validated
    /\ Dirty(values, ValidRecord) < MaxDeviations
    /\ \E f \in Fields : \E v \in RawCandidates(f) :
          /\ values[f] = ValidRecord[f]
          /\ values' = [values EXCEPT ![f] = v]
    /\ UNCHANGED <<errors, validated, appVars, pc, phase, request, serverVars,
                   response, view>>

\* validateForm: the record is validated and the error map stored.
ValidateRecord ==
    /\ ~validated
    /\ errors' = ValidateYupSchema(values)
    /\ validated' = TRUE
    /\ UNCHANGED <<values, appVars, pc, phase, request, serverVars, response,
                   view>>

InitValidator ==
    /\ values = ValidRecord
    /\ result = Null
    /\ phase = "Idle"
    /\ Quiet

NextValidator == SetRaw \/ ValidateRecord

SpecValidator == InitValidator /\ [][NextValidator]_vars

----------------------------------------------------------------------------
(* ResultDisplay alone, on decision results *)

\* Decision results of every shape the LOCDecisionResult type admits.
DecisionResults ==
    { DecisionResult(a, l, r, why) :
        a \in BOOLEAN, l \in {0, 5000, 12345}, r \in {0, 8, 19},
        why \in {Null, Some("")} \cup {Some(x) : x \in DenialReasons} }

\* App renders after setResult(data).
RenderResult ==
    /\ result # Null
    /\ view.screen = "form"
    /\ UNCHANGED <<formVars, appVars, pc, phase, request, serverVars, response>>
    /\ Rerender

InitDisplay ==
    /\ values = initialValues
    /\ result \in {Some(r) : r \in DecisionResults}
    /\ phase = "RespondedDecision"
    /\ Quiet

NextDisplay == RenderResult

SpecDisplay == InitDisplay /\ [][NextDisplay]_vars


----------------------------------------------------------------------------
(* The submission under fair scheduling: an event being dispatched runs   *)
(* to its end, the server answers a request it received, and an awaited   *)
(* promise that can settle does settle.                                   *)

Fairness ==
    /\ WF_vars(SubmitForm)
    /\ WF_vars(SubmitSettles)
    /\ WF_vars(Receive)
    /\ WF_vars(\E o \in Outcomes(BOOLEAN) : \E r \in DenialReasons : Classify(o, r))
    /\ WF_vars(\E o \in Outcomes(Limits) : PredictLimit(o))
    /\ WF_vars(\E o \in Outcomes(Rates) : PredictRate(o))
    /\ WF_vars(FetchRejects)
    /\ WF_vars(FetchResolves)
    /\ WF_vars(JsonSettles)

FairSpec == Spec /\ Fairness

----------------------------------------------------------------------------
(* The constraints as the specification states them *)

ClaimedRange ==
    [ annual_income |-> <<20000, 200000>>, self_reported_debt |-> <<0, 10000>>,
      self_reported_expenses |-> <<0, 10000>>,
      requested_amount |-> <<1000, 50000>>, age |-> <<19, 100>>,
      months_employed |-> <<0, 600>>, credit_score |-> <<300, 900>>,
      total_credit_limit |-> <<0, 50000>>, credit_utilization |-> <<0, 100>>,
      num_open_accounts |-> <<0, 20>>, num_credit_inquiries |-> <<0, 10>>,
      monthly_expenses |-> <<0, 10000>> ]

ClaimedIntegerFields ==
    { "age", "months_employed", "credit_score", "num_open_accounts",
      "num_credit_inquiries" }

ClaimedEnum ==
    [ province |-> { "ON", "BC", "AB", "QC", "MB", "SK", "NS", "NB", "NL",
                     "PE", "YT", "NT", "NU" },
      employment_status |-> { "Full-time", "Part-time", "Unemployed" },
      payment_history |-> { "On Time", "Late <30", "Late 30-60", "Late >60" } ]

ClaimedEnumMessage ==
    [ province |-> "Invalid province",
      employment_status |-> "Invalid employment status",
      payment_history |-> "Invalid payment history" ]

ClaimedNumberFields == DOMAIN ClaimedRange
ClaimedEnumFields == DOMAIN ClaimedEnum

\* A number lies in the stated range of its field.
InClaimedRange(f, v) ==
    /\ ~v.blank
    /\ v.int >= ClaimedRange[f][1]
    /\ v.int < ClaimedRange[f][2] \/ (v.int = ClaimedRange[f][2] /\ v.frac = 0)

\* A value is missing or empty.
ClaimedAbsent(f, v) == IF f \in ClaimedNumberFields THEN v.blank ELSE v = ""

\* A value satisfies the type, range or enum constraint of its field.
ClaimedSatisfies(f, v) ==
    IF f \in ClaimedNumberFields
    THEN InClaimedRange(f, v) /\ (f \in ClaimedIntegerFields => v.frac = 0)
    ELSE IF f \in ClaimedEnumFields THEN v \in ClaimedEnum[f]
    ELSE v # "" /\ Len(v) <= 50

\* The error map has message msg for field f.
ErrorIs(f, msg) == f \in DOMAIN errors /\ errors[f] = msg

\* Every field but f has the value it has in the valid record.
OnlyDeviates(f) == \A g \in Fields \ {f} : values[g] = ValidRecord[g]

----------------------------------------------------------------------------
(* Claims about the validator, under SpecValidator *)

\* C1: with all other fields valid, a number at the lower or the upper
\* bound of its field's range is accepted, and a number one unit below the
\* lower bound or one unit above the upper bound is rejected with an error
\* on that field.
C1_BoundsAcceptedNeighboursRejected ==
    validated =>
        \A f \in ClaimedNumberFields :
            LET lo == ClaimedRange[f][1]
                hi == ClaimedRange[f][2]
            IN  OnlyDeviates(f) =>
                  /\ values[f] \in {Num(lo, 0), Num(hi, 0)} => errors = NoErrors
                  /\ values[f] \in {Num(lo - 1, 0), Num(hi + 1, 0)} =>
                        DOMAIN errors = {f}

C1_Witness ==
    /\ validated
    /\ values = [ValidRecord EXCEPT !.annual_income = Num(20000, 0)]
    /\ errors = NoErrors

\* C2: the error map names exactly the fields that violate their
\* constraint, however many there are, and the record is accepted iff no
\* field does.
C2_ErrorsAreExactlyTheViolations ==
    validated =>
        LET violating == {f \in Fields : ~ClaimedSatisfies(f, values[f])}
        IN  /\ Cardinality(Fields) = 16
            /\ DOMAIN errors = violating
            /\ IsValid(errors) <=> violating = {}

C2_Witness ==
    /\ validated
    /\ Cardinality(DOMAIN errors) >= 2
    /\ "applicant_id" \notin DOMAIN errors

\* C6: a non-whole number inside the range is rejected as not whole for
\* the five integer fields and accepted for the other number fields; age
\* 19 is accepted, age 18 is rejected as below 19, and age 18.5 is rejected
\* as not whole.
C6_IntegerFieldsRejectFractions ==
    validated =>
        /\ \A f \in ClaimedNumberFields :
              (InClaimedRange(f, values[f]) /\ values[f].frac # 0) =>
                  IF f \in ClaimedIntegerFields
                  THEN ErrorIs(f, "Must be a whole number")
                  ELSE f \notin DOMAIN errors
        /\ values.age = Num(19, 0) => "age" \notin DOMAIN errors
        /\ values.age = Num(18, 0) => ErrorIs("age", "Must be at least 19 years old")
        /\ values.age = Num(18, 1) => ErrorIs("age", "Must be a whole number")

C6_Witness ==
    /\ validated
    /\ values.age = Num(18, 1)
    /\ values.monthly_expenses = Num(0, 1)
    /\ DOMAIN errors = {"age"}

\* C7: each enum field accepts exactly its permitted values, any other
\* non-empty value gets the field's 'Invalid ...' message, and the select
\* elements offer exactly the permitted values.
C7_EnumsAcceptExactlyTheirSets ==
    validated =>
        /\ Cardinality(ClaimedEnum.province) = 13
        /\ \A f \in ClaimedEnumFields :
              /\ values[f] \in ClaimedEnum[f] => f \notin DOMAIN errors
              /\ (values[f] \notin ClaimedEnum[f] /\ values[f] # "") =>
                    ErrorIs(f, ClaimedEnumMessage[f])
              /\ Options(f) = ClaimedEnum[f]

C7_Witness ==
    /\ validated
    /\ values.province = "XX"
    /\ values.payment_history = "Late >60"
    /\ errors = ("province" :> "Invalid province")

\* C8: a missing or empty field gets the message 'Required'; the form's
\* untouched initial values give exactly {applicant_id: 'Required'}; an
\* applicant id of 50 characters is accepted and one of 51 is rejected.
C8_EveryFieldRequired ==
    validated =>
        /\ \A f \in Fields :
              ClaimedAbsent(f, values[f]) => ErrorIs(f, "Required")
        /\ values = initialValues => errors = ("applicant_id" :> "Required")
        /\ Len(values.applicant_id) = 50 => "applicant_id" \notin DOMAIN errors
        /\ Len(values.applicant_id) = 51 => "applicant_id" \in DOMAIN errors

C8_Witness ==
    /\ validated
    /\ values = initialValues
    /\ errors = ("applicant_id" :> "Required")


----------------------------------------------------------------------------
(* Claims about a submission, under Spec and FairSpec *)

\* Some field of the record violates its constraint.
ClaimedInvalid(rec) == \E f \in Fields : ~ClaimedSatisfies(f, rec[f])

\* C3: a record that fails validation never reaches scoring: a request on
\* its way to the server always carries a record whose every field
\* satisfies its constraint, and when the validation of a submit settles
\* on values of which some field violates its constraint, handleSubmit is
\* not called (loading is not set), no request is sent and no model is
\* invoked.
C3_InvalidRecordNeverScored ==
    /\ [](request # Null => ~ClaimedInvalid(request[1]))
    /\ [][ (pc = "validating" /\ ClaimedInvalid(values)) =>
             /\ pc' = "idle"
             /\ request' = Null
             /\ loading' = loading
             /\ srv' = "idle"
             /\ calls' = calls ]_vars

C3_Witness ==
    /\ phase = "Rejected"
    /\ ClaimedInvalid(values)
    /\ errors = ("applicant_id" :> "Required")
    /\ ~loading
    /\ request = Null
    /\ calls = NoCalls

\* C4: the classifier is invoked first, the two regressors only after it
\* has answered true; once it has answered false neither regressor has
\* been invoked and the decision has approval_status = false.
C4_RegressorsGatedByClassifier ==
    /\ calls.classifier <= 1
    /\ srv \in {"limit", "rate"} =>
          calls.classifier = 1 /\ outputs.classifier = Some(TRUE)
    /\ (calls.limit > 0 \/ calls.rate > 0) =>
          calls.classifier = 1 /\ outputs.classifier = Some(TRUE)
    /\ outputs.classifier = Some(FALSE) =>
          /\ calls.limit = 0
          /\ calls.rate = 0
          /\ srv = "idle"
          /\ (Arrived /\ response[1].parsable) =>
                response[1].data = DecisionResult(FALSE, 0, 0, response[1].data.reason)
          /\ result # Null => result[1].approval_status = FALSE

C4_Witness ==
    /\ outputs.classifier = Some(FALSE)
    /\ calls = [classifier |-> 1, limit |-> 0, rate |-> 0]
    /\ result # Null
    /\ result[1].approval_status = FALSE

\* A model invocation made for the request being scored has failed.
ModelFailed ==
    \E m \in {"classifier", "limit", "rate"} :
        calls[m] > 0 /\ outputs[m] = Null

\* C5: a failed submission never yields a decision: after a model
\* invocation has failed the pipeline has stopped and its response is a
\* server error carrying no decision; and when handleSubmit ends because
\* fetch threw, the body could not be parsed or the response was not OK,
\* result keeps its value, null, error is set to a message, and loading is
\* false.
C5_FailureYieldsNoDecision ==
    /\ [](ModelFailed =>
            /\ srv = "idle"
            /\ (Arrived /\ response[1].parsable) =>
                  /\ ~response[1].ok
                  /\ "approval_status" \notin DOMAIN response[1].data)
    /\ [][ ( /\ pc \in {"awaitFetch", "awaitJson"}
             /\ pc' = "idle"
             /\ \/ pc = "awaitFetch"
                \/ ~response[1].parsable
                \/ ~response[1].ok ) =>
             /\ result' = result
             /\ result' = Null
             /\ error' # Null
             /\ loading' = FALSE ]_vars

C5_Witness ==
    /\ ModelFailed
    /\ phase = "RespondedError"
    /\ error = Some(ServerErrorMessage)
    /\ result = Null
    /\ pc = "idle"

\* The steps of the request lifecycle.
LifecycleSteps ==
    { <<"Idle", "Received">>, <<"Rejected", "Received">>,
      <<"RespondedDecision", "Received">>, <<"RespondedError", "Received">>,
      <<"Received", "Validating">>,
      <<"Validating", "Rejected">>, <<"Validating", "Scoring">>,
      <<"Scoring", "RespondedDecision">>, <<"Scoring", "RespondedError">> }

\* C9: a submission goes Received -> Validating -> Rejected or Scoring ->
\* Responded-Decision or Responded-Error; Scoring is entered only from
\* Validating with every field satisfying its constraint; a submission
\* that has started ends; once handleSubmit has been called, eventually
\* loading is false and result or error is non-null; and when handleSubmit
\* ends, loading is false and exactly one of result and error is non-null.
C9_LifecycleReachesOneTerminalState ==
    /\ [][phase' # phase => <<phase, phase'>> \in LifecycleSteps]_vars
    /\ [][(phase' = "Scoring" /\ phase # "Scoring") =>
            ~ClaimedInvalid(values) /\ IsValid(errors') /\ loading']_vars
    /\ [][(pc \in {"awaitFetch", "awaitJson"} /\ pc' = "idle") =>
            /\ loading' = FALSE
            /\ phase' \in {"RespondedDecision", "RespondedError"}
            /\ (phase' = "RespondedDecision") <=> (result' # Null)
            /\ (phase' = "RespondedError") <=> (error' # Null)
            /\ (result' # Null) # (error' # Null)]_vars
    /\ (pc # "idle") ~> (pc = "idle")
    /\ (pc = "awaitFetch") ~>
            (pc = "idle" /\ ~loading /\ (result # Null \/ error # Null))

C9_Witness ==
    /\ phase = "RespondedDecision"
    /\ pc = "idle"
    /\ ~loading
    /\ result # Null
    /\ error = Null

----------------------------------------------------------------------------
(* Claims about App.handleSubmit and App.handleReset, under Spec *)

\* The message the specification states for a response that is not OK.
ClaimedResponseMessage(data) ==
    IF "error" \in DOMAIN data
    THEN IF data.error # Null /\ data.error[1] # ""
         THEN data.error[1]
         ELSE "An error occurred while processing your application"
    ELSE "An error occurred while processing your application"

\* handleSubmit returns in this step.
Settles == pc \in {"awaitFetch", "awaitJson"} /\ pc' = "idle"

NothingInFlight == request = Null /\ response = Null

\* C12: a call of handleSubmit issues exactly one POST: a request is sent
\* only by the step that starts handleSubmit; a failure ends the call at
\* once, with no request sent again, and nothing is in flight until the
\* user submits again.
C12_OnePostPerSubmission ==
    /\ [](/\ posts <= 1
          /\ pending > 0 => posts = 1
          /\ phase \in {"RespondedError", "RespondedDecision"} =>
                posts = 1 /\ NothingInFlight)
    /\ [][(request' # Null /\ request' # request) =>
            /\ pc = "validating"
            /\ pc' = "awaitFetch"
            /\ request = Null
            /\ request' = Some(values)]_vars
    /\ [][(Settles /\ error' # Null) =>
            /\ request' = Null
            /\ posts' = posts
            /\ pending' = 0
            /\ phase' = "RespondedError"]_vars

C12_Witness ==
    /\ phase = "RespondedError"
    /\ error = Some(FetchFailure.message)
    /\ posts = 1
    /\ pending = 0
    /\ NothingInFlight

\* C13: at most one request is in flight; the number of calls of
\* handleSubmit that have not returned is 0 or 1, and loading is true
\* exactly when it is 1; a submission starts only while loading is false
\* and result is null.
C13_AtMostOneRequestInFlight ==
    /\ pending \in {0, 1}
    /\ loading <=> (pending = 1)
    /\ ~(request # Null /\ response # Null)
    /\ ~NothingInFlight => pending = 1
    /\ Dispatching => ~loading /\ result = Null /\ pending = 0

C13_Witness ==
    /\ pending = 1
    /\ loading
    /\ srv = "rate"
    /\ view.screen = "form"
    /\ view.submitDisabled
    /\ IsValid(errors)

\* C14: result and error are never both non-null, and while error is
\* non-null the form, not the result, is on the screen.
C14_ResultAndErrorExclusive ==
    /\ ~(result # Null /\ error # Null)
    /\ error # Null => view.screen = "form" /\ view.banner = error

C14_Witness ==
    /\ error = Some(ServerErrorMessage)
    /\ result = Null
    /\ view.screen = "form"
    /\ view.banner = error
    /\ ~view.submitDisabled

\* C15: from the start of handleSubmit until it returns error is null; a
\* submission that succeeded leaves error null; and an error that is
\* non-null once every submission has ended is the one of the latest
\* submission, which ended in an error.
C15_SubmitClearsPreviousError ==
    /\ pending > 0 => error = Null
    /\ phase = "Scoring" => error = Null /\ pending = 1
    /\ phase = "RespondedDecision" => error = Null
    /\ error # Null => phase \in {"RespondedError", "Received", "Validating"}
    /\ (error # Null /\ pc = "idle") => phase = "RespondedError"

\* A submission is on its way while the pipeline still holds the failed
\* invocation of the one before: the error of that one has been cleared.
C15_Witness ==
    /\ ModelFailed
    /\ phase = "Scoring"
    /\ request # Null
    /\ error = Null
    /\ view.banner = Null

\* C16: handleReset sets result and error to null and leaves loading as it
\* is; it happens only while a result is on the screen, when no request is
\* in flight; after it the form is on the screen with the initial values,
\* not the values submitted before.
C16_ResetReturnsToInitialForm ==
    /\ [](view.screen = "result" =>
            pc = "idle" /\ pending = 0 /\ ~loading /\ NothingInFlight)
    /\ [][(result # Null /\ result' = Null) =>
            /\ view.screen = "result"
            /\ error' = Null
            /\ loading' = loading
            /\ values' = initialValues
            /\ errors' = NoErrors
            /\ view'.screen = "form"
            /\ view'.banner = Null ]_vars

C16_Witness ==
    /\ phase = "RespondedDecision"
    /\ result = Null
    /\ error = Null
    /\ ~loading
    /\ values = initialValues
    /\ view.screen = "form"

\* C17: a result that is non-null stays as it is until handleReset sets it
\* to null: no submission starts and no response arrives meanwhile; and
\* the screen is the result display exactly when result is non-null, the
\* form exactly when it is null.
C17_DecisionStableUntilReset ==
    /\ []((view.screen = "result") <=> (result # Null))
    /\ []((view.screen = "form") <=> (result = Null))
    /\ [](result # Null => pc = "idle" /\ pending = 0 /\ NothingInFlight)
    /\ [][result # Null =>
            \/ result' = result
            \/ /\ result' = Null
               /\ error' = Null
               /\ pc' = pc
               /\ phase' = phase ]_vars

C17_Witness ==
    /\ result # Null
    /\ ~result[1].approval_status
    /\ view.screen = "result"
    /\ view.shown = {"DENIED", "reason"}
    /\ phase = "RespondedDecision"
    /\ NothingInFlight

----------------------------------------------------------------------------
(* Claim about ResultDisplay, under SpecDisplay *)

\* C10: the credit limit and the interest rate are on the screen only for
\* an approved result, the reason only for a denied result whose reason is
\* non-empty.
C10_DecisionFieldsMatchOutcome ==
    view.screen = "result" =>
        LET r == result[1]
        IN  /\ "credit_limit" \in view.shown => r.approval_status
            /\ "interest_rate" \in view.shown => r.approval_status
            /\ "reason" \in view.shown =>
                  ~r.approval_status /\ r.reason # Null /\ r.reason[1] # ""
            /\ ~r.approval_status =>
                  view.shown \cap {"credit_limit", "interest_rate"} = {}
            /\ r.approval_status => "reason" \notin view.shown

C10_Witness ==
    /\ view.screen = "result"
    /\ result[1].approval_status
    /\ Truthy(result[1].reason)
    /\ view.shown = {"APPROVED", "credit_limit", "interest_rate"}

=============================================================================
